---- MODULE Spec2Model ----
(***************************************************************************)
(* Model of ffmpeg-capture (src/src/index.ts): the recorder handle made by *)
(* createRecorder, its start/stop operations, the listeners they attach to *)
(* the spawned encoder process, the stop watchdog, and the option          *)
(* validator.                                                              *)
(*                                                                         *)
(* Optional values (a field that may be undefined) are sequences of length *)
(* at most one: << >> is undefined, <<v>> is the value v.                  *)
(* platformConfig is flattened into the options record (displayServer,     *)
(* windowsCaptureMethod, preferredAudioBackend); an absent platformConfig  *)
(* is the three fields undefined.                                          *)
(***************************************************************************)
EXTENDS Integers, Sequences, FiniteSets, TLC

VARIABLES
    options,       \* the RecorderOptions value given to createRecorder / validateRecorderOptions
    env,           \* the host: os.platform(), process.env, the file system, ffmpeg-static
    created,       \* "none" before createRecorder, "handle" once it returned, "threw" if it failed
    createError,   \* the message createRecorder failed with ("" if none)
    recProcess,    \* recorder.process: 0 is null, otherwise the index of the process in procs
    isRecording,   \* recorder.isRecording
    procs,         \* every process spawned by the handle, in spawn order
    starts,        \* every start() call: its promise and the process it spawned
    stops,         \* every stop() call: its promise, its watchdog and the process it listens to
    argsBuilt,     \* createFfmpegArgs has run on options
    stoppedSince,  \* a stop() call has been made since the last process was spawned
    validation,    \* result of a direct validateRecorderOptions(options) call (<< >> before the call)
    ticking,       \* Node is delivering the queued 'spawn'/'error' outcomes of spawn() calls
    built,         \* result of a createFfmpegArgs(options) call (<< >> before the call)
    report,        \* result of a detectCaptureMethods() call (<< >> before the call)
    probes         \* every checkFfmpegAvailability() call: its probe process and its promise

vars == <<options, env, created, createError, recProcess, isRecording, procs,
          starts, stops, argsBuilt, stoppedSince, validation, ticking,
          built, report, probes>>

\* the variables of the calls made outside a recorder handle
calls == <<built, report, probes>>

----------------------------------------------------------------------------
(* Bounds *)

MaxStarts == 3
MaxStops == 2

----------------------------------------------------------------------------
(* JavaScript values *)

undefined == << >>

Truthy(x) == x # undefined /\ x[1] # ""

null == -1

OK == "ok"

----------------------------------------------------------------------------
(* validateRecorderOptions *)

validQualityLevels ==
    {"ultrafast", "superfast", "veryfast", "faster", "fast", "medium",
     "slow", "slower", "veryslow", "placebo", "low", "high"}

validVideoQualities ==
    {"lossless", "visually-lossless", "high", "medium", "low", "very-low"}

validAudioQualities == {"lossless", "high", "medium", "low", "very-low"}

validInputs == {"screen", "audio", "both"}

validDisplayServers == {"x11", "wayland", "auto"}

validWindowsCaptureMethods == {"gdigrab", "dshow", "auto"}

MinFps == 1
MaxFps == 60
MinCrf == 0
MaxCrf == 51

QualityLevelsJoined ==
    "ultrafast, superfast, veryfast, faster, fast, medium, slow, slower, veryslow, placebo, low, high"

VideoQualitiesJoined == "lossless, visually-lossless, high, medium, low, very-low"

AudioQualitiesJoined == "lossless, high, medium, low, very-low"

fpsOutOfRange_off(fps) == fps[1] <= MinFps \/ fps[1] > MaxFps

fpsOutOfRange(fps) == fps[1] < MinFps \/ fps[1] > MaxFps

crfOutOfRange(crf) == crf[1] < MinCrf \/ crf[1] > MaxCrf

validateRecorderOptions(o) ==
    IF ~Truthy(o.output) THEN "Output path is required"
    ELSE IF o.input \notin validInputs THEN "Input must be one of: screen, audio, both"
    ELSE IF o.fps # undefined /\ fpsOutOfRange(o.fps) THEN "FPS must be between 1 and 60"
    ELSE IF o.screenId # undefined /\ o.screenId[1] < 0 THEN "Screen ID must be non-negative"
    ELSE IF Truthy(o.quality) /\ o.quality[1] \notin validQualityLevels
        THEN "Quality must be one of: " \o QualityLevelsJoined
    ELSE IF Truthy(o.videoQuality) /\ o.videoQuality[1] \notin validVideoQualities
        THEN "Video quality must be one of: " \o VideoQualitiesJoined
    ELSE IF Truthy(o.audioQuality) /\ o.audioQuality[1] \notin validAudioQualities
        THEN "Audio quality must be one of: " \o AudioQualitiesJoined
    ELSE IF Truthy(o.encodingSpeed) /\ o.encodingSpeed[1] \notin validQualityLevels
        THEN "Encoding speed must be one of: " \o QualityLevelsJoined
    ELSE IF o.crf # undefined /\ crfOutOfRange(o.crf) THEN "CRF must be between 0 and 51"
    ELSE IF Truthy(o.displayServer) /\ o.displayServer[1] \notin validDisplayServers
        THEN "Display server must be one of: x11, wayland, auto"
    ELSE IF Truthy(o.windowsCaptureMethod)
            /\ o.windowsCaptureMethod[1] \notin validWindowsCaptureMethods
        THEN "Windows capture method must be one of: gdigrab, dshow, auto"
    ELSE OK

----------------------------------------------------------------------------
(* Argument synthesis: the conditions under which createFfmpegArgs throws *)

detectDisplayServer(e) ==
    IF Truthy(e.WAYLAND_DISPLAY) \/ e.XDG_SESSION_TYPE = <<"wayland">> THEN "wayland"
    ELSE IF Truthy(e.DISPLAY) \/ e.XDG_SESSION_TYPE = <<"x11">> THEN "x11"
    ELSE "x11"

\* << >> when addVideoInput returns, <<message>> when it throws
addVideoInputThrows(platform, o, e) ==
    IF platform = "darwin" THEN << >>
    ELSE IF platform = "win32" THEN << >>
    ELSE IF platform = "linux" THEN
        LET displayServer == IF Truthy(o.displayServer) THEN o.displayServer[1]
                             ELSE detectDisplayServer(e)
        IN IF displayServer = "wayland" /\ e.wfRecorder
           THEN <<"Wayland capture requires wf-recorder. Please use X11 session or install wf-recorder.">>
           ELSE << >>
    ELSE <<"Unsupported platform for screen capture: " \o platform>>

\* << >> when addAudioInput returns, <<message>> when it throws
addAudioInputThrows(platform) ==
    IF platform \in {"darwin", "win32", "linux"} THEN << >>
    ELSE <<"Unsupported platform for audio capture: " \o platform>>

\* << >> when createFfmpegArgs returns, <<message>> when it throws
createFfmpegArgsThrows_never(o, e) == << >>

createFfmpegArgsThrows(o, e) ==
    IF o.input = "screen" THEN addVideoInputThrows(e.platform, o, e)
    ELSE IF o.input = "audio" THEN addAudioInputThrows(e.platform)
    ELSE IF o.input = "both" THEN
        IF e.platform = "darwin" THEN << >>
        ELSE IF addVideoInputThrows(e.platform, o, e) # << >>
             THEN addVideoInputThrows(e.platform, o, e)
             ELSE addAudioInputThrows(e.platform)
    ELSE << >>

\* options.ffmpegPath || ffmpegPath
command(o, e) == IF Truthy(o.ffmpegPath) THEN o.ffmpegPath ELSE e.ffmpegStatic

----------------------------------------------------------------------------
(* Messages *)

AlreadyInProgress == "Recording is already in progress"

PathNotFound == "FFmpeg path not found. Please install ffmpeg-static or provide a custom path."

NotGraceful == "FFmpeg process did not terminate gracefully"

FailedToStart(msg) == "Failed to start FFmpeg: " \o msg

ExitedWithCode(code) == "FFmpeg exited with code " \o ToString(code)

----------------------------------------------------------------------------
(* Inputs of the lifecycle specification *)

BaseOptions ==
    [output |-> <<"x.mp4">>, input |-> "screen", fps |-> undefined,
     screenId |-> undefined, audioDevice |-> undefined, ffmpegPath |-> undefined,
     videoCodec |-> undefined, audioCodec |-> undefined, quality |-> undefined,
     videoQuality |-> undefined, audioQuality |-> undefined,
     encodingSpeed |-> undefined, crf |-> undefined, videoBitrate |-> undefined,
     audioBitrate |-> undefined, displayServer |-> undefined,
     windowsCaptureMethod |-> undefined, preferredAudioBackend |-> undefined]

BaseEnv ==
    [platform |-> "linux", WAYLAND_DISPLAY |-> undefined,
     XDG_SESSION_TYPE |-> undefined, DISPLAY |-> <<":1">>, wfRecorder |-> FALSE,
     PULSE_RUNTIME_PATH |-> undefined, pulseDir |-> TRUE,
     JACK_DEFAULT_SERVER |-> undefined, jackShm |-> FALSE,
     ffmpegStatic |-> <<"/node_modules/ffmpeg-static/ffmpeg">>]

LifecycleOptions ==
    {BaseOptions,
     [BaseOptions EXCEPT !.input = "audio"],
     [BaseOptions EXCEPT !.output = <<"">>],
     [BaseOptions EXCEPT !.crf = <<60>>]}

LifecycleEnvs ==
    {BaseEnv,
     [BaseEnv EXCEPT !.platform = "freebsd"],
     [BaseEnv EXCEPT !.ffmpegStatic = undefined],
     [BaseEnv EXCEPT !.platform = "freebsd", !.ffmpegStatic = undefined],
     [BaseEnv EXCEPT !.WAYLAND_DISPLAY = <<"wayland-0">>, !.wfRecorder = TRUE]}

\* error.message of a failed spawn, and of a failed kill
SpawnErrors == {"spawn ffmpeg ENOENT"}

KillError == "kill EPERM"

\* exit codes the encoder may end with (null: ended by a signal)
ExitCodes == {0, 1, null}

----------------------------------------------------------------------------
(* The recorder handle *)

Init ==
    /\ options \in LifecycleOptions
    /\ env \in LifecycleEnvs
    /\ created = "none"
    /\ createError = ""
    /\ recProcess = 0
    /\ isRecording = FALSE
    /\ procs = << >>
    /\ starts = << >>
    /\ stops = << >>
    /\ argsBuilt = FALSE
    /\ stoppedSince = FALSE
    /\ validation = << >>
    /\ ticking = FALSE
    /\ built = << >>
    /\ report = << >>
    /\ probes = << >>

\* resolve()/reject() of a promise: only the first settlement counts
Settle(r, status, error) ==
    IF r.status = "pending" THEN [r EXCEPT !.status = status, !.error = error] ELSE r

Alive(p) == procs[p].state \in {"pending", "running"}

\* createRecorder: validateRecorderOptions(options) before the handle is built
createRecorderCheck_skip(o) == OK

createRecorderCheck(o) == validateRecorderOptions(o)

CreateRecorder ==
    /\ created = "none"
    /\ validation = << >>
    /\ IF createRecorderCheck(options) = OK
       THEN /\ created' = "handle"
            /\ recProcess' = 0
            /\ isRecording' = FALSE
            /\ UNCHANGED createError
       ELSE /\ created' = "threw"
            /\ createError' = createRecorderCheck(options)
            /\ UNCHANGED <<recProcess, isRecording>>
    /\ UNCHANGED calls
    /\ UNCHANGED <<options, env, procs, starts, stops, argsBuilt, stoppedSince, validation,
                   ticking>>

\* start: if (recorder.isRecording) throw
startGuard == isRecording

\* the 'spawn' listener of start
spawnListenerIsRecording_unlessStopped == ~stoppedSince

spawnListenerIsRecording == TRUE

\* the 'error' listener of start: recorder.isRecording = false; recorder.process = null
errorListenerProcess_keep(cur) == cur

errorListenerProcess(cur) == 0

errorListenerIsRecording == FALSE

\* the 'error' listener of the process p, run when p emits 'error' with message msg
ErrorListener(p, msg) ==
    /\ isRecording' = errorListenerIsRecording
    /\ recProcess' = errorListenerProcess(recProcess)
    /\ starts' = [i \in DOMAIN starts |->
                    IF starts[i].proc = p
                    THEN Settle(starts[i], "rejected", FailedToStart(msg))
                    ELSE starts[i]]

Start ==
    /\ created = "handle"
    /\ ~ticking
    /\ Len(starts) < MaxStarts
    /\ IF startGuard
       THEN /\ starts' = Append(starts, [status |-> "rejected", error |-> AlreadyInProgress, proc |-> 0])
            /\ UNCHANGED <<recProcess, procs, argsBuilt, stoppedSince>>
       ELSE /\ argsBuilt' = TRUE
            /\ IF createFfmpegArgsThrows(options, env) # << >>
               THEN /\ starts' = Append(starts, [status |-> "rejected",
                                                 error |-> createFfmpegArgsThrows(options, env)[1],
                                                 proc |-> 0])
                    /\ UNCHANGED <<recProcess, procs, stoppedSince>>
               ELSE IF ~Truthy(command(options, env))
               THEN /\ starts' = Append(starts, [status |-> "rejected", error |-> PathNotFound, proc |-> 0])
                    /\ UNCHANGED <<recProcess, procs, stoppedSince>>
               ELSE /\ procs' = Append(procs, [state |-> "pending", sigint |-> FALSE,
                                               sigkill |-> FALSE, exitCode |-> null])
                    /\ recProcess' = Len(procs) + 1
                    /\ starts' = Append(starts, [status |-> "pending", error |-> "",
                                                 proc |-> Len(procs) + 1])
                    /\ stoppedSince' = FALSE
    /\ UNCHANGED calls
    /\ UNCHANGED <<options, env, created, createError, isRecording, stops, validation, ticking>>

\* Node queues the 'spawn' or 'error' outcome of each spawn() call for the next
\* tick: the outcomes are delivered in the order of the spawn() calls, after the
\* calling code has run to completion and before any other call, timer or event
NoPending == \A q \in DOMAIN procs : procs[q].state # "pending"

NextToSettle(p) ==
    /\ p \in DOMAIN procs
    /\ procs[p].state = "pending"
    /\ \A q \in DOMAIN procs : q < p => procs[q].state # "pending"

StillTicking(p) == \E q \in DOMAIN procs : q # p /\ procs[q].state = "pending"

\* the process p emits 'spawn'
SpawnEvent(p) ==
    /\ NextToSettle(p)
    /\ procs' = [procs EXCEPT ![p].state = "running"]
    /\ ticking' = StillTicking(p)
    /\ isRecording' = spawnListenerIsRecording
    /\ starts' = [i \in DOMAIN starts |->
                    IF starts[i].proc = p THEN Settle(starts[i], "resolved", "") ELSE starts[i]]
    /\ UNCHANGED calls
    /\ UNCHANGED <<options, env, created, createError, recProcess, stops, argsBuilt,
                   stoppedSince, validation>>

\* the process p could not be spawned: it emits 'error' instead of 'spawn'
SpawnError(p, msg) ==
    /\ NextToSettle(p)
    /\ procs' = [procs EXCEPT ![p].state = "failed"]
    /\ ticking' = StillTicking(p)
    /\ ErrorListener(p, msg)
    /\ UNCHANGED calls
    /\ UNCHANGED <<options, env, created, createError, stops, argsBuilt, stoppedSince, validation>>

\* stop: if (!recorder.process || !recorder.isRecording) return
stopIsNoop_processOnly == recProcess = 0

stopIsNoop == recProcess = 0 \/ ~isRecording

\* child.kill(signal) on the process p: the signal is delivered, or (delivered = FALSE)
\* it cannot be sent and p emits 'error' synchronously; kill on a process that has
\* already ended does nothing
Kill(p, signal, delivered) ==
    IF ~Alive(p)
    THEN /\ delivered
         /\ UNCHANGED <<procs, recProcess, isRecording, starts>>
    ELSE IF delivered
    THEN /\ procs' = [procs EXCEPT ![p][signal] = TRUE]
         /\ UNCHANGED <<recProcess, isRecording, starts>>
    ELSE /\ ErrorListener(p, KillError)
         /\ UNCHANGED procs

Stop ==
    /\ created = "handle"
    /\ ~ticking
    /\ Len(stops) < MaxStops
    /\ stoppedSince' = TRUE
    /\ IF stopIsNoop
       THEN /\ stops' = Append(stops, [status |-> "resolved", error |-> "", proc |-> 0,
                                       timer |-> "none", killed |-> 0])
            /\ UNCHANGED <<procs, recProcess, isRecording, starts>>
       ELSE /\ stops' = Append(stops, [status |-> "pending", error |-> "", proc |-> recProcess,
                                       timer |-> "armed", killed |-> 0])
            /\ \E delivered \in BOOLEAN : Kill(recProcess, "sigint", delivered)
    /\ UNCHANGED calls
    /\ UNCHANGED <<options, env, created, createError, argsBuilt, validation, ticking>>

\* the watchdog: if (recorder.process) { kill('SIGKILL'); reject(...) }
watchdogActs == recProcess # 0

\* the 5 second timeout of the stop call s expires
Watchdog(s) ==
    /\ s \in DOMAIN stops
    /\ NoPending
    /\ stops[s].timer = "armed"
    /\ IF watchdogActs
       THEN /\ \E delivered \in BOOLEAN : Kill(recProcess, "sigkill", delivered)
            /\ stops' = [stops EXCEPT ![s] =
                            Settle([@ EXCEPT !.timer = "fired", !.killed = recProcess],
                                   "rejected", NotGraceful)]
       ELSE /\ stops' = [stops EXCEPT ![s].timer = "fired"]
            /\ UNCHANGED <<procs, recProcess, isRecording, starts>>
    /\ UNCHANGED calls
    /\ UNCHANGED <<options, env, created, createError, argsBuilt, stoppedSince, validation,
                   ticking>>

\* the 'exit' listener of stop: clearTimeout(timeout)
exitListenerTimer_keep(timer) == timer

exitListenerTimer(timer) == IF timer = "armed" THEN "cleared" ELSE timer

\* the 'exit' listener of stop: if (code === 0 || code === null) resolve()
exitResolves(code) == code = 0 \/ code = null

\* the running process p ends with the given code and emits 'exit'
Exit(p, code) ==
    /\ p \in DOMAIN procs
    /\ NoPending
    /\ procs[p].state = "running"
    /\ procs' = [procs EXCEPT ![p].state = "exited", ![p].exitCode = code]
    /\ IF \E s \in DOMAIN stops : stops[s].proc = p
       THEN /\ recProcess' = 0
            /\ isRecording' = FALSE
       ELSE UNCHANGED <<recProcess, isRecording>>
    /\ stops' = [s \in DOMAIN stops |->
                    IF stops[s].proc = p
                    THEN Settle([stops[s] EXCEPT !.timer = exitListenerTimer(@)],
                                IF exitResolves(code) THEN "resolved" ELSE "rejected",
                                IF exitResolves(code) THEN "" ELSE ExitedWithCode(code))
                    ELSE stops[s]]
    /\ UNCHANGED calls
    /\ UNCHANGED <<options, env, created, createError, starts, argsBuilt, stoppedSince,
                   validation, ticking>>

Next ==
    \/ CreateRecorder
    \/ Start
    \/ \E p \in 1..MaxStarts : SpawnEvent(p)
    \/ \E p \in 1..MaxStarts, msg \in SpawnErrors : SpawnError(p, msg)
    \/ Stop
    \/ \E s \in 1..MaxStops : Watchdog(s)
    \/ \E p \in 1..MaxStarts, code \in ExitCodes : Exit(p, code)

Spec == Init /\ [][Next]_vars

----------------------------------------------------------------------------
(* Argument synthesis: createFfmpegArgs and its helpers.  An argument list is  *)
(* a sequence of strings; numbers are pushed through toString().             *)

detectWindowsCaptureMethod == "gdigrab"

detectLinuxAudioBackend(e) ==
    IF Truthy(e.PULSE_RUNTIME_PATH) \/ e.pulseDir THEN "pulse"
    ELSE IF Truthy(e.JACK_DEFAULT_SERVER) \/ e.jackShm THEN "jack"
    ELSE "alsa"

\* config.displayServer || detectDisplayServer()
resolveDisplayServer_detect(o, e) == detectDisplayServer(e)

resolveDisplayServer(o, e) ==
    IF Truthy(o.displayServer) THEN o.displayServer[1] ELSE detectDisplayServer(e)

\* config.windowsCaptureMethod || detectWindowsCaptureMethod()
resolveWindowsCaptureMethod(o) ==
    IF Truthy(o.windowsCaptureMethod) THEN o.windowsCaptureMethod[1]
    ELSE detectWindowsCaptureMethod

\* the arguments addVideoInput pushes (when it does not throw)
addVideoInput(platform, screenId, fps, o, e) ==
    IF platform = "darwin" THEN
        <<"-f", "avfoundation", "-i", ToString(screenId) \o ":", "-r", ToString(fps)>>
    ELSE IF platform = "win32" THEN
        LET captureMethod == resolveWindowsCaptureMethod(o)
        IN IF captureMethod = "gdigrab" THEN
               <<"-f", "gdigrab", "-framerate", ToString(fps), "-i", "desktop">>
               \o (IF screenId > 0 THEN <<"-offset_x", "0", "-offset_y", "0">> ELSE << >>)
           ELSE IF captureMethod = "dshow" THEN
               <<"-f", "dshow", "-framerate", ToString(fps),
                 "-i", "video=\"screen-capture-recorder\"">>
           ELSE <<"-f", "gdigrab", "-framerate", ToString(fps), "-i", "desktop">>
    ELSE IF platform = "linux" THEN
        IF resolveDisplayServer(o, e) = "wayland" THEN
            <<"-f", "kmsgrab", "-i", "-", "-r", ToString(fps)>>
        ELSE
            LET display == IF Truthy(e.DISPLAY) THEN e.DISPLAY[1] ELSE ":0.0"
            IN <<"-f", "x11grab", "-r", ToString(fps),
                 "-i", IF screenId > 0 THEN display \o "." \o ToString(screenId) ELSE display,
                 "-show_region", "1">>
    ELSE << >>

\* audioDevice || fallback
deviceOr_fallback(o, fallback) == fallback

deviceOr(o, fallback) == IF Truthy(o.audioDevice) THEN o.audioDevice[1] ELSE fallback

\* the arguments addAudioInput pushes (when it does not throw)
addAudioInput(platform, o, e) ==
    IF platform = "darwin" THEN
        <<"-f", "avfoundation", "-i", ":" \o deviceOr(o, "0")>>
    ELSE IF platform = "win32" THEN
        LET preferredBackend == IF Truthy(o.preferredAudioBackend)
                                THEN o.preferredAudioBackend[1] ELSE "dshow"
        IN IF preferredBackend = "dshow" THEN
               <<"-f", "dshow", "-i", "audio=" \o deviceOr(o, "Stereo Mix")>>
           ELSE IF preferredBackend = "wasapi" THEN
               <<"-f", "wasapi", "-i", deviceOr(o, "default")>>
           ELSE <<"-f", "dshow", "-i", "audio=" \o deviceOr(o, "Stereo Mix")>>
    ELSE IF platform = "linux" THEN
        LET preferredBackend == IF Truthy(o.preferredAudioBackend)
                                THEN o.preferredAudioBackend[1]
                                ELSE detectLinuxAudioBackend(e)
        IN IF preferredBackend = "pulse" THEN <<"-f", "pulse", "-i", deviceOr(o, "default")>>
           ELSE IF preferredBackend = "alsa" THEN <<"-f", "alsa", "-i", deviceOr(o, "default")>>
           ELSE IF preferredBackend = "jack" THEN <<"-f", "jack", "-i", deviceOr(o, "default")>>
           ELSE <<"-f", "pulse", "-i", deviceOr(o, "default")>>
    ELSE << >>

mapQualityLevelToPreset(level) ==
    IF level \in {"ultrafast", "superfast", "veryfast", "faster", "fast", "medium",
                  "slow", "slower", "veryslow", "placebo"} THEN level
    ELSE IF level = "low" THEN "veryfast"
    ELSE IF level = "high" THEN "slow"
    ELSE "medium"

\* getEncodingSpeed: the switch on config.legacy
legacySpeed_low(legacy) ==
    IF legacy = "low" THEN "ultrafast" ELSE IF legacy = "high" THEN "slow" ELSE "medium"

legacySpeed(legacy) ==
    IF legacy = "low" THEN "veryfast" ELSE IF legacy = "high" THEN "slow" ELSE "medium"

getEncodingSpeed(c) ==
    IF Truthy(c.encodingSpeed) THEN mapQualityLevelToPreset(c.encodingSpeed[1])
    ELSE IF Truthy(c.legacy) THEN legacySpeed(c.legacy[1])
    ELSE "medium"

\* getVideoQualityCRF: the number is given as the string toString() makes of it
getVideoQualityCRF(quality) ==
    IF quality = "lossless" THEN "lossless"
    ELSE IF quality = "visually-lossless" THEN "15"
    ELSE IF quality = "high" THEN "18"
    ELSE IF quality = "medium" THEN "23"
    ELSE IF quality = "low" THEN "28"
    ELSE IF quality = "very-low" THEN "35"
    ELSE "23"

getLegacyVideoQuality_placebo(quality) ==
    IF quality \in {"ultrafast", "superfast", "veryfast", "low"} THEN "35"
    ELSE IF quality \in {"faster", "fast"} THEN "28"
    ELSE IF quality = "medium" THEN "23"
    ELSE IF quality \in {"slow", "high"} THEN "18"
    ELSE IF quality \in {"slower", "veryslow", "placebo"} THEN "15"
    ELSE "23"

getLegacyVideoQuality(quality) ==
    IF quality \in {"ultrafast", "superfast", "veryfast", "low"} THEN "35"
    ELSE IF quality \in {"faster", "fast"} THEN "28"
    ELSE IF quality = "medium" THEN "23"
    ELSE IF quality \in {"slow", "high"} THEN "18"
    ELSE IF quality \in {"slower", "veryslow"} THEN "15"
    ELSE IF quality = "placebo" THEN "12"
    ELSE "23"

\* applyVideoQualitySettings: the quality flag chosen by the if/else chain
videoQualityFlag(c) ==
    IF c.crf # undefined THEN <<"-crf", ToString(c.crf[1])>>
    ELSE IF Truthy(c.videoBitrate) THEN <<"-b:v", c.videoBitrate[1]>>
    ELSE IF Truthy(c.videoQuality) THEN
        <<"-crf", IF getVideoQualityCRF(c.videoQuality[1]) = "lossless" THEN "0"
                  ELSE getVideoQualityCRF(c.videoQuality[1])>>
    ELSE IF Truthy(c.legacy) THEN <<"-crf", getLegacyVideoQuality(c.legacy[1])>>
    ELSE <<"-crf", "23">>

\* applyVideoQualitySettings: if (config.videoQuality === 'lossless') push('-qp', '0')
losslessFlag(c) == IF c.videoQuality = <<"lossless">> THEN <<"-qp", "0">> ELSE << >>

applyVideoQualitySettings(c) ==
    <<"-preset", getEncodingSpeed(c)>> \o videoQualityFlag(c) \o losslessFlag(c)

detectHardwareAcceleration_none(platform) == << >>

detectHardwareAcceleration(platform) ==
    IF platform = "win32" THEN <<"h264_nvenc">>
    ELSE IF platform = "darwin" THEN <<"h264_videotoolbox">>
    ELSE IF platform = "linux" THEN <<"h264_vaapi">>
    ELSE << >>

addVideoCodec(o, c, e) ==
    IF Truthy(o.videoCodec)
    THEN <<"-c:v", o.videoCodec[1]>> \o applyVideoQualitySettings(c)
    ELSE <<"-c:v", IF detectHardwareAcceleration(e.platform) # << >>
                   THEN detectHardwareAcceleration(e.platform)[1] ELSE "libx264">>
         \o applyVideoQualitySettings(c)

getAudioCodec(c) == IF c.audioQuality = <<"lossless">> THEN "flac" ELSE "aac"

\* << >> is the null the code returns for FLAC
getAudioQualityBitrate_low(quality, codec) ==
    IF codec = "flac" /\ quality = "lossless" THEN << >>
    ELSE IF quality = "lossless" THEN (IF codec = "aac" THEN <<"320k">> ELSE <<"512k">>)
    ELSE IF quality = "high" THEN <<"256k">>
    ELSE IF quality = "medium" THEN <<"128k">>
    ELSE IF quality = "low" THEN <<"64k">>
    ELSE IF quality = "very-low" THEN <<"64k">>
    ELSE <<"128k">>

getAudioQualityBitrate(quality, codec) ==
    IF codec = "flac" /\ quality = "lossless" THEN << >>
    ELSE IF quality = "lossless" THEN (IF codec = "aac" THEN <<"320k">> ELSE <<"512k">>)
    ELSE IF quality = "high" THEN <<"256k">>
    ELSE IF quality = "medium" THEN <<"128k">>
    ELSE IF quality = "low" THEN <<"96k">>
    ELSE IF quality = "very-low" THEN <<"64k">>
    ELSE <<"128k">>

getLegacyAudioQuality(quality) ==
    IF quality \in {"ultrafast", "superfast", "veryfast", "low"} THEN "64k"
    ELSE IF quality \in {"faster", "fast"} THEN "96k"
    ELSE IF quality = "medium" THEN "128k"
    ELSE IF quality \in {"slow", "high"} THEN "256k"
    ELSE IF quality \in {"slower", "veryslow", "placebo"} THEN "320k"
    ELSE "128k"

applyAudioQualitySettings(c, codec) ==
    (IF Truthy(c.audioBitrate) THEN <<"-b:a", c.audioBitrate[1]>>
     ELSE IF Truthy(c.audioQuality) THEN
        (IF getAudioQualityBitrate(c.audioQuality[1], codec) # << >>
         THEN <<"-b:a", getAudioQualityBitrate(c.audioQuality[1], codec)[1]>>
         ELSE << >>)
     ELSE IF Truthy(c.legacy) THEN <<"-b:a", getLegacyAudioQuality(c.legacy[1])>>
     ELSE <<"-b:a", "128k">>)
    \o (IF codec = "aac"
        THEN (IF c.audioQuality = <<"high">> \/ c.audioQuality = <<"lossless">>
              THEN <<"-aac_coder", "twoloop">> ELSE << >>)
        ELSE IF codec = "libopus" THEN <<"-application", "audio">>
        ELSE IF codec = "flac" THEN <<"-compression_level", "8">>
        ELSE << >>)

addAudioCodec(o, c) ==
    IF Truthy(o.audioCodec)
    THEN <<"-c:a", o.audioCodec[1]>> \o applyAudioQualitySettings(c, o.audioCodec[1])
    ELSE <<"-c:a", getAudioCodec(c)>> \o applyAudioQualitySettings(c, getAudioCodec(c))

\* createFfmpegArgs: the qualityConfig object (quality defaults to 'medium')
qualityConfig(o) ==
    [legacy |-> IF o.quality = undefined THEN <<"medium">> ELSE o.quality,
     videoQuality |-> o.videoQuality, audioQuality |-> o.audioQuality,
     encodingSpeed |-> o.encodingSpeed, crf |-> o.crf,
     videoBitrate |-> o.videoBitrate, audioBitrate |-> o.audioBitrate]

\* createFfmpegArgs: the input and codec groups between '-y' and the output path
argsBody_codecsFirst(o, e) ==
    LET fps == IF o.fps = undefined THEN 30 ELSE o.fps[1]
        screenId == IF o.screenId = undefined THEN 0 ELSE o.screenId[1]
        c == qualityConfig(o)
    IN IF o.input = "screen" THEN
           addVideoCodec(o, c, e) \o addVideoInput(e.platform, screenId, fps, o, e)
       ELSE IF o.input = "audio" THEN
           addAudioCodec(o, c) \o addAudioInput(e.platform, o, e)
       ELSE << >>

argsBody(o, e) ==
    LET fps == IF o.fps = undefined THEN 30 ELSE o.fps[1]
        screenId == IF o.screenId = undefined THEN 0 ELSE o.screenId[1]
        c == qualityConfig(o)
    IN IF o.input = "screen" THEN
           addVideoInput(e.platform, screenId, fps, o, e) \o addVideoCodec(o, c, e)
       ELSE IF o.input = "audio" THEN
           addAudioInput(e.platform, o, e) \o addAudioCodec(o, c)
       ELSE IF o.input = "both" THEN
           (IF e.platform = "darwin"
            THEN <<"-f", "avfoundation",
                   "-i", ToString(screenId) \o ":" \o deviceOr(o, "0"),
                   "-r", ToString(fps)>>
            ELSE addVideoInput(e.platform, screenId, fps, o, e)
                 \o addAudioInput(e.platform, o, e))
           \o addVideoCodec(o, c, e) \o addAudioCodec(o, c)
       ELSE << >>

\* the list createFfmpegArgs returns (when it does not throw)
createFfmpegArgs(o, e) == <<"-y">> \o argsBody(o, e) \o <<o.output[1]>>

----------------------------------------------------------------------------
(* Direct calls of validateRecorderOptions *)

ValidateDomain ==
    [output |-> {undefined, <<"">>, <<"x.mp4">>},
     fps |-> {undefined, <<-1>>, <<0>>, <<1>>, <<30>>, <<60>>, <<61>>},
     screenId |-> {undefined, <<-1>>, <<0>>, <<1>>},
     quality |-> {undefined, <<"">>, <<"bogus">>, <<"very-low">>}
                    \cup {<<q>> : q \in validQualityLevels},
     videoQuality |-> {undefined, <<"">>, <<"bogus">>, <<"ultrafast">>}
                    \cup {<<q>> : q \in validVideoQualities},
     audioQuality |-> {undefined, <<"">>, <<"visually-lossless">>}
                    \cup {<<q>> : q \in validAudioQualities},
     encodingSpeed |-> {undefined, <<"">>, <<"lossless">>}
                    \cup {<<q>> : q \in validQualityLevels},
     crf |-> {undefined, <<-1>>, <<0>>, <<23>>, <<51>>, <<52>>},
     displayServer |-> {undefined, <<"auto">>, <<"x11">>, <<"wayland">>, <<"bogus">>},
     windowsCaptureMethod |-> {undefined, <<"auto">>, <<"gdigrab">>, <<"dshow">>, <<"bogus">>},
     preferredAudioBackend |-> {undefined, <<"auto">>, <<"pulse">>, <<"wasapi">>, <<"bogus">>}]

ValidateInputs == {"screen", "audio", "both", "invalid"}

FieldValues == UNION {{<<f, v>> : v \in ValidateDomain[f]} : f \in DOMAIN ValidateDomain}

\* every options value that differs from BaseOptions in the input mode and in at most
\* two other fields
ValidateOptions ==
    {[[[BaseOptions EXCEPT ![a[1]] = a[2]] EXCEPT ![b[1]] = b[2]] EXCEPT !.input = i] :
        a \in FieldValues, b \in FieldValues, i \in ValidateInputs}

InitValidate ==
    /\ options \in ValidateOptions
    /\ env = BaseEnv
    /\ created = "none"
    /\ createError = ""
    /\ recProcess = 0
    /\ isRecording = FALSE
    /\ procs = << >>
    /\ starts = << >>
    /\ stops = << >>
    /\ argsBuilt = FALSE
    /\ stoppedSince = FALSE
    /\ validation = << >>
    /\ ticking = FALSE
    /\ built = << >>
    /\ report = << >>
    /\ probes = << >>

Validate ==
    /\ validation = << >>
    /\ created = "none"
    /\ validation' = <<validateRecorderOptions(options)>>
    /\ UNCHANGED calls
    /\ UNCHANGED <<options, env, created, createError, recProcess, isRecording, procs,
                   starts, stops, argsBuilt, stoppedSince, ticking>>

NextValidate == Validate

SpecValidate == InitValidate /\ [][NextValidate]_vars

----------------------------------------------------------------------------
(* Direct calls of createFfmpegArgs on validated options *)

\* the optional strings a quality-level field is given: absent, empty, each level
LevelValues == {undefined, <<"">>} \cup {<<q>> : q \in validQualityLevels}

VideoQualityOptions ==
    {[BaseOptions EXCEPT !.crf = crf, !.videoBitrate = vb, !.videoQuality = vq,
                         !.quality = q, !.encodingSpeed = es, !.videoCodec = vc] :
        crf \in {undefined, <<0>>, <<30>>},
        vb \in {undefined, <<"">>, <<"2M">>},
        vq \in {undefined, <<"">>} \cup {<<v>> : v \in validVideoQualities},
        q \in LevelValues,
        es \in {undefined, <<"low">>},
        vc \in {undefined, <<"libx265">>}}

SpeedOptions ==
    {[BaseOptions EXCEPT !.quality = q, !.encodingSpeed = es] :
        q \in LevelValues, es \in LevelValues}

AudioQualityOptions ==
    {[BaseOptions EXCEPT !.input = "audio", !.audioBitrate = ab, !.audioQuality = aq,
                         !.quality = q, !.audioCodec = ac] :
        ab \in {undefined, <<"">>, <<"192k">>},
        aq \in {undefined, <<"">>} \cup {<<a>> : a \in validAudioQualities},
        q \in LevelValues,
        ac \in {undefined, <<"">>, <<"aac">>, <<"libopus">>, <<"flac">>, <<"libmp3lame">>}}

\* combined capture with quality options for both streams
BothQualityOptions ==
    {[BaseOptions EXCEPT !.input = "both", !.videoQuality = vq, !.videoBitrate = vb,
                         !.audioQuality = aq, !.audioBitrate = ab] :
        vq \in {undefined, <<"lossless">>},
        vb \in {undefined, <<"2M">>},
        aq \in {undefined, <<"lossless">>, <<"high">>},
        ab \in {undefined, <<"192k">>}}

\* screen capture with default quality at several frame rates and screens
FrameOptions ==
    {[BaseOptions EXCEPT !.fps = f, !.screenId = sid, !.displayServer = ds] :
        f \in {undefined, <<1>>, <<30>>, <<60>>},
        sid \in {undefined, <<0>>, <<1>>, <<2>>},
        ds \in {undefined, <<"x11">>}}

PlatformOptions ==
    {[BaseOptions EXCEPT !.input = i, !.displayServer = ds, !.windowsCaptureMethod = wcm,
                         !.preferredAudioBackend = pab, !.screenId = sid,
                         !.audioDevice = dev] :
        i \in validInputs,
        ds \in {undefined, <<"x11">>, <<"wayland">>, <<"auto">>},
        wcm \in {undefined, <<"dshow">>, <<"auto">>},
        pab \in {undefined, <<"auto">>, <<"alsa">>, <<"jack">>, <<"wasapi">>},
        sid \in {undefined, <<1>>},
        dev \in {undefined, <<"hw:0">>}}

LinuxEnvs ==
    {[BaseEnv EXCEPT !.WAYLAND_DISPLAY = wd, !.XDG_SESSION_TYPE = xdg, !.DISPLAY = d,
                     !.wfRecorder = wf, !.PULSE_RUNTIME_PATH = a[1], !.pulseDir = a[2],
                     !.JACK_DEFAULT_SERVER = a[3], !.jackShm = a[4]] :
        wd \in {undefined, <<"wayland-0">>},
        xdg \in {undefined, <<"wayland">>},
        d \in {undefined, <<":1">>},
        wf \in BOOLEAN,
        a \in {<<undefined, TRUE, undefined, FALSE>>,
               <<(<<"/run/pulse">>), FALSE, undefined, TRUE>>,
               <<undefined, FALSE, undefined, TRUE>>,
               <<undefined, FALSE, (<<"default">>), FALSE>>,
               <<undefined, FALSE, undefined, FALSE>>}}

OtherEnvs == {[BaseEnv EXCEPT !.platform = p] : p \in {"darwin", "win32", "freebsd"}}

\* validated options; windowsCaptureMethod, read on win32 only, is varied off Linux
InitArgs ==
    /\ \/ /\ options \in VideoQualityOptions \cup SpeedOptions \cup AudioQualityOptions
                        \cup BothQualityOptions
          /\ env = BaseEnv
       \/ /\ options \in FrameOptions
          /\ env \in LinuxEnvs
       \/ /\ options \in PlatformOptions
          /\ env \in OtherEnvs
       \/ /\ options \in PlatformOptions
          /\ options.windowsCaptureMethod = undefined
          /\ env \in LinuxEnvs
    /\ validateRecorderOptions(options) = OK
    /\ created = "none"
    /\ createError = ""
    /\ recProcess = 0
    /\ isRecording = FALSE
    /\ procs = << >>
    /\ starts = << >>
    /\ stops = << >>
    /\ argsBuilt = FALSE
    /\ stoppedSince = FALSE
    /\ validation = << >>
    /\ ticking = FALSE
    /\ built = << >>
    /\ report = << >>
    /\ probes = << >>

\* one call createFfmpegArgs(options): it returns the list or throws
BuildArgs ==
    /\ built = << >>
    /\ built' = IF createFfmpegArgsThrows(options, env) # << >>
                THEN <<[threw |-> TRUE,
                        message |-> createFfmpegArgsThrows(options, env)[1],
                        args |-> << >>]>>
                ELSE <<[threw |-> FALSE, message |-> "",
                        args |-> createFfmpegArgs(options, env)]>>
    /\ UNCHANGED <<report, probes>>
    /\ UNCHANGED <<options, env, created, createError, recProcess, isRecording, procs,
                   starts, stops, argsBuilt, stoppedSince, validation, ticking>>

NextArgs == BuildArgs

SpecArgs == InitArgs /\ [][NextArgs]_vars

----------------------------------------------------------------------------
(* checkFfmpegAvailability: each call spawns `command -version` and resolves  *)
(* its promise from the child's 'close' and 'error' listeners.                 *)

MaxProbes == 2

\* exit codes 'close' reports for a child that was spawned
ProbeExitCodes == {0, 1, null}

\* the code 'close' reports after a failed spawn: the negative errno
SpawnErrno == -2

InitProbe ==
    /\ options = BaseOptions
    /\ env \in {BaseEnv, [BaseEnv EXCEPT !.ffmpegStatic = undefined]}
    /\ created = "none"
    /\ createError = ""
    /\ recProcess = 0
    /\ isRecording = FALSE
    /\ procs = << >>
    /\ starts = << >>
    /\ stops = << >>
    /\ argsBuilt = FALSE
    /\ stoppedSince = FALSE
    /\ validation = << >>
    /\ ticking = FALSE
    /\ built = << >>
    /\ report = << >>
    /\ probes = << >>

\* customPath || ffmpegPath || 'ffmpeg'
probeCommand(customPath, e) ==
    IF Truthy(customPath) THEN customPath[1]
    ELSE IF Truthy(e.ffmpegStatic) THEN e.ffmpegStatic[1]
    ELSE "ffmpeg"

\* a promise is settled by the first resolve() only
resolve(p, value) == IF p.result = << >> THEN [p EXCEPT !.result = <<value>>] ELSE p

\* the call: the child is spawned, or the spawn fails and 'error' is pending
CheckFfmpegAvailability ==
    /\ Len(probes) < MaxProbes
    /\ \E customPath \in {undefined, <<"">>, <<"/opt/ffmpeg">>}, spawned \in BOOLEAN :
         probes' = Append(probes, [command |-> probeCommand(customPath, env),
                                   spawned |-> spawned, errored |-> FALSE,
                                   closed |-> << >>, result |-> << >>])
    /\ UNCHANGED <<built, report>>
    /\ UNCHANGED <<options, env, created, createError, recProcess, isRecording, procs,
                   starts, stops, argsBuilt, stoppedSince, validation, ticking>>

closeResolves_orNull(code) == code = 0 \/ code = null

\* the 'close' listener: resolve(code === 0)
closeResolves(code) == code = 0

ProbeClose ==
    /\ \E i \in 1..Len(probes) :
         /\ probes[i].closed = << >>
         /\ \E code \in IF probes[i].spawned THEN ProbeExitCodes ELSE {SpawnErrno} :
              probes' = [probes EXCEPT ![i] =
                            resolve([@ EXCEPT !.closed = <<code>>], closeResolves(code))]
    /\ UNCHANGED <<built, report>>
    /\ UNCHANGED <<options, env, created, createError, recProcess, isRecording, procs,
                   starts, stops, argsBuilt, stoppedSince, validation, ticking>>

\* the 'error' listener: resolve(false); emitted for a failed spawn, before or
\* after 'close'
ProbeError ==
    /\ \E i \in 1..Len(probes) :
         /\ ~probes[i].spawned
         /\ ~probes[i].errored
         /\ probes' = [probes EXCEPT ![i] = resolve([@ EXCEPT !.errored = TRUE], FALSE)]
    /\ UNCHANGED <<built, report>>
    /\ UNCHANGED <<options, env, created, createError, recProcess, isRecording, procs,
                   starts, stops, argsBuilt, stoppedSince, validation, ticking>>

NextProbe == CheckFfmpegAvailability \/ ProbeClose \/ ProbeError

SpecProbe == InitProbe /\ [][NextProbe]_vars

----------------------------------------------------------------------------
(* detectCaptureMethods *)

InitDetect ==
    /\ options = BaseOptions
    /\ env \in LinuxEnvs \cup OtherEnvs
    /\ created = "none"
    /\ createError = ""
    /\ recProcess = 0
    /\ isRecording = FALSE
    /\ procs = << >>
    /\ starts = << >>
    /\ stops = << >>
    /\ argsBuilt = FALSE
    /\ stoppedSince = FALSE
    /\ validation = << >>
    /\ ticking = FALSE
    /\ built = << >>
    /\ report = << >>
    /\ probes = << >>

detectCaptureMethods(e) ==
    IF e.platform = "darwin" THEN
        [video |-> <<"avfoundation">>, audio |-> <<"avfoundation">>,
         displayServer |-> undefined]
    ELSE IF e.platform = "win32" THEN
        [video |-> <<"gdigrab", "dshow">>, audio |-> <<"dshow", "wasapi">>,
         displayServer |-> undefined]
    ELSE IF e.platform = "linux" THEN
        [video |-> IF detectDisplayServer(e) = "wayland" THEN <<"kmsgrab">>
                   ELSE <<"x11grab">>,
         audio |-> <<detectLinuxAudioBackend(e)>>,
         displayServer |-> <<detectDisplayServer(e)>>]
    ELSE [video |-> << >>, audio |-> << >>, displayServer |-> undefined]

DetectCaptureMethods ==
    /\ report = << >>
    /\ report' = <<detectCaptureMethods(env)>>
    /\ UNCHANGED <<built, probes>>
    /\ UNCHANGED <<options, env, created, createError, recProcess, isRecording, procs,
                   starts, stops, argsBuilt, stoppedSince, validation, ticking>>

NextDetect == DetectCaptureMethods

SpecDetect == InitDetect /\ [][NextDetect]_vars

----------------------------------------------------------------------------
(* getQualityPresets: the catalog of preset names and descriptions *)

getQualityPresets ==
    [encodingSpeed |->
        <<[value |-> "ultrafast", description |-> "Fastest encoding, largest file size"],
          [value |-> "superfast", description |-> "Very fast encoding"],
          [value |-> "veryfast", description |-> "Fast encoding"],
          [value |-> "faster", description |-> "Faster than default"],
          [value |-> "fast", description |-> "Fast encoding"],
          [value |-> "medium", description |-> "Default balanced speed"],
          [value |-> "slow", description |-> "Slower encoding, better compression"],
          [value |-> "slower", description |-> "Much slower encoding"],
          [value |-> "veryslow", description |-> "Slowest encoding, best compression"],
          [value |-> "placebo", description |-> "Extremely slow, diminishing returns"]>>,
     videoQuality |->
        <<[value |-> "lossless", description |-> "Perfect quality, largest files (CRF 0)"],
          [value |-> "visually-lossless", description |-> "Visually perfect (CRF 15)"],
          [value |-> "high", description |-> "High quality (CRF 18)"],
          [value |-> "medium", description |-> "Good quality (CRF 23)"],
          [value |-> "low", description |-> "Lower quality (CRF 28)"],
          [value |-> "very-low", description |-> "Lowest quality (CRF 35)"]>>,
     audioQuality |->
        <<[value |-> "lossless", description |-> "Perfect audio quality (FLAC or 320k+)"],
          [value |-> "high", description |-> "High quality (256k)"],
          [value |-> "medium", description |-> "Good quality (128k)"],
          [value |-> "low", description |-> "Lower quality (96k)"],
          [value |-> "very-low", description |-> "Lowest quality (64k)"]>>]

----------------------------------------------------------------------------
(* Claims C1 - C10 *)

\* the step is a start() call; NewStart is the call's record afterwards
StartCalled == Len(starts') = Len(starts) + 1

NewStart == starts'[Len(starts')]

\* the step is a stop() call; NewStop is the call's record afterwards
StopCalled == Len(stops') = Len(stops) + 1

NewStop == stops'[Len(stops')]

\* an earlier start spawned a process that has neither failed nor ended, and no
\* stop has been called since
EarlierStartInForce == procs # << >> /\ ~stoppedSince /\ Alive(Len(procs))

\* C1: a start() made after an earlier start with no intervening stop is rejected
\* with 'Recording is already in progress', spawns no second process and leaves
\* recorder.process at the first call's process, also when the first process has
\* not yet emitted 'spawn'.
C1_SingleFlightStart ==
    [][(StartCalled /\ EarlierStartInForce) =>
          /\ NewStart.status = "rejected"
          /\ NewStart.error = "Recording is already in progress"
          /\ procs' = procs
          /\ recProcess' = recProcess]_vars

\* C2: in every reachable state at most one process spawned by the handle is
\* alive, and a live spawned process is the one recorder.process references.
C2_AtMostOneLiveProcess ==
    /\ Cardinality({p \in DOMAIN procs : procs[p].state = "running"}) <= 1
    /\ \A p \in DOMAIN procs : procs[p].state = "running" => recProcess = p

\* C3: when the watchdog of a stop() made on a Running handle expires and the
\* process has not exited, the stop call rejects with 'FFmpeg process did not
\* terminate gracefully' and SIGKILL has been sent to that process.
C3_StopTimeout ==
    [][\A s \in DOMAIN stops :
          (/\ stops[s].timer = "armed"
           /\ stops'[s].timer = "fired"
           /\ Alive(stops[s].proc)) =>
             /\ stops'[s].status = "rejected"
             /\ stops'[s].error = "FFmpeg process did not terminate gracefully"
             /\ stops'[s].killed = stops[s].proc]_vars

\* C4: stop() on a handle that is not running resolves immediately, sends no
\* signal, arms no watchdog and leaves recorder.process and recorder.isRecording
\* unchanged.
C4_IdleStopIsNoop ==
    [][(StopCalled /\ (recProcess = 0 \/ ~isRecording)) =>
          /\ NewStop.status = "resolved"
          /\ NewStop.timer = "none"
          /\ procs' = procs
          /\ starts' = starts
          /\ recProcess' = recProcess
          /\ isRecording' = isRecording
          /\ \A s \in DOMAIN stops : stops'[s] = stops[s]]_vars

\* a stop() found the handle idle after a process of the handle had failed or ended
C4_Witness ==
    /\ \E s \in DOMAIN stops : stops[s].timer = "none" /\ stops[s].status = "resolved"
    /\ \E p \in DOMAIN procs : procs[p].state \in {"failed", "exited"}

\* C5: when the process exits while a stop is in flight and its watchdog has not
\* fired, the watchdog is cancelled and never sends SIGKILL, recorder.process
\* becomes null and recorder.isRecording false, and the stop resolves on exit code
\* 0 or null and otherwise rejects with 'FFmpeg exited with code <code>'.
C5_ExitDuringStop ==
    [][/\ \A s \in DOMAIN stops :
            LET p == stops[s].proc IN
            (/\ stops[s].timer = "armed"
             /\ procs[p].state = "running"
             /\ procs'[p].state = "exited") =>
               /\ stops'[s].timer = "cleared"
               /\ recProcess' = 0
               /\ isRecording' = FALSE
               /\ IF procs'[p].exitCode = 0 \/ procs'[p].exitCode = null
                  THEN stops'[s].status = "resolved"
                  ELSE /\ stops'[s].status = "rejected"
                       /\ stops'[s].error =
                            "FFmpeg exited with code " \o ToString(procs'[p].exitCode)
       /\ \A s \in DOMAIN stops' : stops'[s].timer = "cleared" => stops'[s].killed = 0]_vars

\* the process exited with a non-zero code during a stop, before the watchdog fired
C5_Witness ==
    \E s \in DOMAIN stops :
        /\ stops[s].timer = "cleared"
        /\ stops[s].status = "rejected"
        /\ procs[stops[s].proc].state = "exited"

\* C6: when a process emits 'error' instead of 'spawn', its start call rejects
\* with 'Failed to start FFmpeg: <message>' and afterwards recorder.process is null
\* and recorder.isRecording is false.
C6_SpawnFailure ==
    [][\A p \in DOMAIN procs :
          (procs[p].state = "pending" /\ procs'[p].state = "failed") =>
             /\ recProcess' = 0
             /\ isRecording' = FALSE
             /\ \E i \in DOMAIN starts :
                   /\ starts[i].proc = p
                   /\ starts'[i].status = "rejected"
                   /\ starts'[i].error \in {"Failed to start FFmpeg: " \o m : m \in SpawnErrors}]_vars

\* a spawn failed and its start call has been rejected
C6_Witness ==
    \E i \in DOMAIN starts :
        /\ starts[i].proc # 0
        /\ procs[starts[i].proc].state = "failed"
        /\ starts[i].status = "rejected"

\* C7: whenever the process recorder.process references exits, for any reason and
\* also with no stop in flight, recorder.process becomes null and
\* recorder.isRecording false.
C7_ClearedOnExit ==
    [][\A p \in DOMAIN procs :
          (procs[p].state = "running" /\ procs'[p].state = "exited" /\ recProcess = p) =>
             (recProcess' = 0 /\ isRecording' = FALSE)]_vars

\* C8: whenever a start call resolves, at that moment recorder.isRecording is true
\* and recorder.process is non-null.
C8_ResolvedStartIsRunning ==
    [][(\E i \in DOMAIN starts :
            starts[i].status = "pending" /\ starts'[i].status = "resolved") =>
          (isRecording' = TRUE /\ recProcess' # 0)]_vars

\* C9: createRecorder returns a handle (process null, isRecording false, nothing
\* spawned) only for options that pass validateRecorderOptions; for options that
\* fail it, it fails with the validation error and returns no handle, and argument
\* synthesis never runs on them.
C9_CreateValidatesFirst ==
    /\ created = "handle" => validateRecorderOptions(options) = OK
    /\ created = "threw" =>
          /\ validateRecorderOptions(options) # OK
          /\ createError = validateRecorderOptions(options)
          /\ starts = << >> /\ stops = << >> /\ procs = << >>
    /\ (created = "handle" /\ starts = << >> /\ stops = << >>) =>
          (recProcess = 0 /\ isRecording = FALSE /\ procs = << >>)
    /\ argsBuilt => validateRecorderOptions(options) = OK

\* createRecorder failed on an invalid CRF
C9_Witness ==
    /\ created = "threw"
    /\ options.crf = <<60>>
    /\ createError = "CRF must be between 0 and 51"

\* a supplied name: the empty string counts as not supplied, as for the output path
Named(x) == x # << >> /\ x[1] # ""

\* the error the documented rules give for the options o: that of the first rule
\* (in the documented order) that o breaks, OK when it breaks none
DocumentedValidation(o) ==
    LET broken == <<
            ~Named(o.output),
            o.input \notin {"screen", "audio", "both"},
            o.fps # << >> /\ o.fps[1] \notin 1..60,
            o.screenId # << >> /\ o.screenId[1] < 0,
            Named(o.quality) /\ o.quality[1] \notin validQualityLevels,
            Named(o.videoQuality) /\ o.videoQuality[1] \notin validVideoQualities,
            Named(o.audioQuality) /\ o.audioQuality[1] \notin validAudioQualities,
            Named(o.encodingSpeed) /\ o.encodingSpeed[1] \notin validQualityLevels,
            o.crf # << >> /\ o.crf[1] \notin 0..51,
            Named(o.displayServer) /\ o.displayServer[1] \notin {"x11", "wayland", "auto"},
            Named(o.windowsCaptureMethod)
                /\ o.windowsCaptureMethod[1] \notin {"gdigrab", "dshow", "auto"} >>
        message == <<
            "Output path is required",
            "Input must be one of: screen, audio, both",
            "FPS must be between 1 and 60",
            "Screen ID must be non-negative",
            "Quality must be one of: " \o QualityLevelsJoined,
            "Video quality must be one of: " \o VideoQualitiesJoined,
            "Audio quality must be one of: " \o AudioQualitiesJoined,
            "Encoding speed must be one of: " \o QualityLevelsJoined,
            "CRF must be between 0 and 51",
            "Display server must be one of: x11, wayland, auto",
            "Windows capture method must be one of: gdigrab, dshow, auto" >>
        firstBroken == {k \in 1..Len(broken) : broken[k] /\ \A j \in 1..(k - 1) : ~broken[j]}
    IN IF firstBroken = {} THEN OK ELSE message[CHOOSE k \in firstBroken : TRUE]

\* C10: validateRecorderOptions raises the documented error of the first rule the
\* options break (fps outside [1,60] with 1 and 60 accepted, screenId < 0, a quality
\* name outside its set, crf outside [0,51], ...) and raises nothing when every
\* supplied field is valid.
C10_ValidationExact ==
    validation # << >> => validation[1] = DocumentedValidation(options)

\* validation rejected fps = 61 on otherwise valid options
C10_Witness ==
    /\ validation = <<"FPS must be between 1 and 60">>
    /\ options.fps = <<61>>
    /\ options.crf = <<51>>

----------------------------------------------------------------------------
(* Claims C11 - C20 *)

\* the audio backends addAudioInput knows, and the detection keyword
KnownAudioBackends == {"dshow", "wasapi", "pulse", "alsa", "jack", "auto"}

\* C11: every unrecognized platform override value (a displayServer outside
\* {x11, wayland, auto}, a windowsCaptureMethod outside {gdigrab, dshow, auto}, a
\* preferredAudioBackend that is not a known audio backend) is rejected by
\* validateRecorderOptions.
C11_PlatformOverridesValidated ==
    (/\ validation # << >>
     /\ \/ Named(options.displayServer)
            /\ options.displayServer[1] \notin {"x11", "wayland", "auto"}
        \/ Named(options.windowsCaptureMethod)
            /\ options.windowsCaptureMethod[1] \notin {"gdigrab", "dshow", "auto"}
        \/ Named(options.preferredAudioBackend)
            /\ options.preferredAudioBackend[1] \notin KnownAudioBackends)
        => validation[1] # OK


\* the argument list of a createFfmpegArgs call that returned
Returned == built # << >> /\ ~built[1].threw

Args == built[1].args

\* flag f is followed by value v somewhere in the list a
HasPair(a, f, v) == \E i \in 1..(Len(a) - 1) : a[i] = f /\ a[i + 1] = v

Count(a, f) == Cardinality({i \in 1..Len(a) : a[i] = f})

VideoGroup == options.input \in {"screen", "both"}

AudioGroup == options.input \in {"audio", "both"}

\* the documented CRF of a video quality preset
PresetCrf(vq) ==
    CASE vq = "lossless" -> "0" [] vq = "visually-lossless" -> "15" [] vq = "high" -> "18"
      [] vq = "medium" -> "23" [] vq = "low" -> "28" [] vq = "very-low" -> "35"

\* the documented CRF of a legacy quality level
LegacyCrf(q) ==
    CASE q \in {"ultrafast", "superfast", "veryfast", "low"} -> "35"
      [] q \in {"faster", "fast"} -> "28"
      [] q = "medium" -> "23"
      [] q \in {"slow", "high"} -> "18"
      [] q \in {"slower", "veryslow"} -> "15"
      [] q = "placebo" -> "12"

\* C12: whenever a video codec group is produced, the quality flag follows the
\* precedence explicit crf, then videoBitrate (and then no -crf), then the
\* video quality preset table, then the legacy quality table, then -crf 23;
\* exactly one of -crf and -b:v is emitted.
C12_VideoQualityPrecedence ==
    (Returned /\ VideoGroup) =>
        /\ Count(Args, "-crf") + Count(Args, "-b:v") = 1
        /\ IF options.crf # undefined
           THEN HasPair(Args, "-crf", ToString(options.crf[1]))
           ELSE IF Truthy(options.videoBitrate)
           THEN HasPair(Args, "-b:v", options.videoBitrate[1]) /\ Count(Args, "-crf") = 0
           ELSE IF Truthy(options.videoQuality)
           THEN HasPair(Args, "-crf", PresetCrf(options.videoQuality[1]))
           ELSE IF Truthy(options.quality)
           THEN HasPair(Args, "-crf", LegacyCrf(options.quality[1]))
           ELSE HasPair(Args, "-crf", "23")

C12_Witness ==
    /\ Returned /\ VideoGroup
    /\ options.crf = undefined /\ ~Truthy(options.videoBitrate)
    /\ ~Truthy(options.videoQuality) /\ options.quality = <<"placebo">>
    /\ HasPair(Args, "-crf", "12")


\* C13: whenever videoQuality is 'lossless' and a video codec group is emitted,
\* the list contains both '-crf 0' and '-qp 0', whatever the codec and whatever
\* the other quality inputs (crf, videoBitrate, legacy quality, encodingSpeed).
C13_LosslessBothFlags ==
    (Returned /\ VideoGroup /\ options.videoQuality = <<"lossless">>) =>
        HasPair(Args, "-crf", "0") /\ HasPair(Args, "-qp", "0")


\* the documented x264 preset name of a speed level
SpeedName(level) ==
    CASE level = "low" -> "veryfast" [] level = "high" -> "slow" [] OTHER -> level

FinalAudioCodec ==
    IF Truthy(options.audioCodec) THEN options.audioCodec[1]
    ELSE IF options.audioQuality = <<"lossless">> THEN "flac"
    ELSE "aac"

\* the documented bitrate of an audio quality preset: << >> when none is emitted
PresetBitrate(aq, codec) ==
    CASE aq = "high" -> <<"256k">> [] aq = "medium" -> <<"128k">>
      [] aq = "low" -> <<"96k">> [] aq = "very-low" -> <<"64k">>
      [] aq = "lossless" -> IF codec = "flac" THEN << >>
                            ELSE IF codec = "aac" THEN <<"320k">> ELSE <<"512k">>

\* the documented bitrate of a legacy quality level
LegacyBitrate(q) ==
    CASE q \in {"ultrafast", "superfast", "veryfast", "low"} -> <<"64k">>
      [] q \in {"faster", "fast"} -> <<"96k">>
      [] q = "medium" -> <<"128k">>
      [] q \in {"slow", "high"} -> <<"256k">>
      [] q \in {"slower", "veryslow", "placebo"} -> <<"320k">>

ExpectedBitrate ==
    IF Truthy(options.audioBitrate) THEN options.audioBitrate
    ELSE IF Truthy(options.audioQuality)
    THEN PresetBitrate(options.audioQuality[1], FinalAudioCodec)
    ELSE IF Truthy(options.quality) THEN LegacyBitrate(options.quality[1])
    ELSE <<"128k">>

C16_ArgumentOrder ==
    Returned =>
        /\ Args[1] = "-y"
        /\ Args[Len(Args)] = options.output[1]
        /\ \A i, j \in 1..Len(Args) :
             (Args[i] \in {"-f", "-i"} /\ Args[j] \in {"-c:v", "-c:a"}) => i < j

C16_Witness ==
    /\ Returned /\ options.input = "both" /\ env.platform = "linux"
    /\ Count(Args, "-i") = 2 /\ Count(Args, "-c:v") = 1 /\ Count(Args, "-c:a") = 1


\* the capture format environment detection alone selects on Linux
DetectedVideoFormat == IF detectDisplayServer(env) = "wayland" THEN "kmsgrab" ELSE "x11grab"

\* C17: an explicit platform choice is used whatever the environment, and
\* 'auto' gives what detection gives: on Linux a displayServer or
\* preferredAudioBackend of 'auto' selects the same backend as the omitted field.
C17_AutoIsDetection ==
    (Returned /\ env.platform = "linux") =>
        /\ VideoGroup =>
            /\ options.displayServer = <<"x11">> => HasPair(Args, "-f", "x11grab")
            /\ options.displayServer = <<"wayland">> => HasPair(Args, "-f", "kmsgrab")
            /\ options.displayServer = <<"auto">> => HasPair(Args, "-f", DetectedVideoFormat)
        /\ AudioGroup =>
            /\ options.preferredAudioBackend \in {<<"alsa">>, <<"jack">>}
                 => HasPair(Args, "-f", options.preferredAudioBackend[1])
            /\ options.preferredAudioBackend = <<"auto">>
                 => HasPair(Args, "-f", detectLinuxAudioBackend(env))


\* the display server is wayland, by explicit choice or by detection
ResolvedWayland ==
    \/ options.displayServer = <<"wayland">>
    \/ ~Truthy(options.displayServer) /\ detectDisplayServer(env) = "wayland"

\* C18: on Linux with the display server resolved to wayland, building the
\* video input throws the unsupported-environment error when
\* /usr/bin/wf-recorder is absent, and kmsgrab input arguments are produced
\* only when the helper is present.
C18_WaylandNeedsHelper ==
    (built # << >> /\ env.platform = "linux" /\ VideoGroup /\ ResolvedWayland) =>
        /\ ~env.wfRecorder => built[1].threw
        /\ (Returned /\ HasPair(Args, "-f", "kmsgrab")) => env.wfRecorder


\* C19: checkFfmpegAvailability settles once and never rejects: in every order
\* of 'error' and 'close' its promise is resolved as soon as either fires and
\* never changes afterwards, with true exactly when the child closed with exit
\* code 0 and false after a spawn error or a non-zero or null exit code.
C19_ProbeResult ==
    \A i \in 1..Len(probes) :
         /\ probes[i].result # << >> <=> (probes[i].errored \/ probes[i].closed # << >>)
         /\ probes[i].result = <<TRUE>> <=> probes[i].closed = <<0>>
         /\ (probes[i].errored \/ (probes[i].closed # << >> /\ probes[i].closed # <<0>>))
              => probes[i].result = <<FALSE>>

C19_Witness ==
    \E i, j \in 1..Len(probes) :
        /\ probes[i].errored /\ probes[i].closed = <<SpawnErrno>>
        /\ probes[i].result = <<FALSE>>
        /\ probes[j].closed = <<null>> /\ probes[j].result = <<FALSE>>

\* C20: detectCaptureMethods returns, on every platform and in every
\* environment, a report whose video and audio lists are non-empty; on Linux
\* the video list is kmsgrab when a Wayland session is detected and x11grab
\* otherwise; displayServer is set on Linux only; nothing is spawned.
C20_DetectReport ==
    report # << >> =>
        /\ Len(report[1].video) > 0 /\ Len(report[1].audio) > 0
        /\ env.platform = "linux" =>
             report[1].video = IF Truthy(env.WAYLAND_DISPLAY)
                                  \/ env.XDG_SESSION_TYPE = <<"wayland">>
                               THEN <<"kmsgrab">> ELSE <<"x11grab">>
        /\ report[1].displayServer # undefined <=> env.platform = "linux"
        /\ procs = << >> /\ probes = << >>


----------------------------------------------------------------------------
(* Claims C21 - C30 *)

\* no video quality option other than the legacy level is supplied
OnlyLegacyQuality ==
    /\ options.crf = undefined /\ ~Truthy(options.videoBitrate)
    /\ ~Truthy(options.videoQuality) /\ ~Truthy(options.encodingSpeed)

\* C21: with no other quality option supplied, legacy quality 'low' makes the
\* video arguments use the ultrafast preset with CRF 35, and legacy quality
\* 'high' the slow preset with CRF 18.
C21_LegacyLowHigh ==
    (Returned /\ VideoGroup /\ OnlyLegacyQuality) =>
        /\ options.quality = <<"low">> =>
             HasPair(Args, "-preset", "ultrafast") /\ HasPair(Args, "-crf", "35")
        /\ options.quality = <<"high">> =>
             HasPair(Args, "-preset", "slow") /\ HasPair(Args, "-crf", "18")


\* the names the catalog lists for an option
Listed(f) == {getQualityPresets[f][k].value : k \in 1..Len(getQualityPresets[f])}

\* C22: for encodingSpeed, videoQuality and audioQuality, the names listed by
\* getQualityPresets are exactly the names validateRecorderOptions accepts:
\* options whose only deviation is a name for one of these pass validation
\* exactly when the catalog lists the name.
C22_CatalogMatchesValidator ==
    \A f \in {"encodingSpeed", "videoQuality", "audioQuality"} :
        (/\ validation # << >>
         /\ Named(options[f])
         /\ options = [BaseOptions EXCEPT ![f] = options[f]])
            => (validation[1] = OK <=> options[f][1] \in Listed(f))


\* C23: every stop() made on a Running handle is settled no later than its
\* 5 second watchdog: once the watchdog has expired or has been cleared the
\* call is resolved or rejected, also when an 'error' event of the process has
\* cleared the handle while the stop was in flight.
C23_StopSettlesByWatchdog ==
    \A s \in DOMAIN stops :
        stops[s].timer \in {"fired", "cleared"} => stops[s].status # "pending"


\* the platform is unsupported and no encoder binary path can be resolved
BothWouldFail ==
    /\ env.platform \notin {"darwin", "win32", "linux"}
    /\ ~Truthy(options.ffmpegPath) /\ ~Truthy(env.ffmpegStatic)

UnsupportedPlatformErrors ==
    {"Unsupported platform for screen capture: " \o env.platform,
     "Unsupported platform for audio capture: " \o env.platform}

\* C24: a start() that fails before spawning (double start, an error raised by
\* argument synthesis, no encoder binary path) spawns no process and leaves
\* recorder.process and recorder.isRecording as they were; argument synthesis
\* comes before binary-path resolution, so when both would fail the start is
\* rejected with the unsupported-platform error.
C24_FailedStartFrame ==
    [][StartCalled =>
          /\ NewStart.status = "rejected" =>
               /\ NewStart.proc = 0
               /\ procs' = procs
               /\ recProcess' = recProcess
               /\ isRecording' = isRecording
          /\ (~isRecording /\ BothWouldFail) =>
               /\ NewStart.status = "rejected"
               /\ NewStart.error \in UnsupportedPlatformErrors]_vars

C24_Witness ==
    /\ BothWouldFail
    /\ procs = << >> /\ recProcess = 0 /\ ~isRecording
    /\ \E i \in DOMAIN starts :
         starts[i].status = "rejected" /\ starts[i].error \in UnsupportedPlatformErrors


\* recorder.process is a process that has not yet emitted 'spawn' or 'error'
StartInFlight == recProcess # 0 /\ procs[recProcess].state = "pending"

\* C25: a stop() issued after start has launched the process and before its
\* 'spawn' event resolves immediately, sends no signal and arms no watchdog,
\* and does not cancel the start: when 'spawn' arrives the handle becomes
\* Running with that process alive and unsignalled.
C25_StopDoesNotCancelStart ==
    [][/\ (StopCalled /\ StartInFlight) =>
             /\ NewStop.status = "resolved"
             /\ NewStop.timer = "none"
             /\ procs' = procs
             /\ recProcess' = recProcess
             /\ isRecording' = isRecording
       /\ (stoppedSince /\ StartInFlight /\ procs'[recProcess].state = "running") =>
             /\ isRecording'
             /\ recProcess' = recProcess
             /\ ~procs'[recProcess].sigint
             /\ ~procs'[recProcess].sigkill]_vars

C25_Witness ==
    /\ stoppedSince /\ isRecording
    /\ recProcess # 0 /\ procs[recProcess].state = "running"
    /\ ~procs[recProcess].sigint
    /\ stops # << >>
    /\ \A s \in DOMAIN stops : stops[s].status = "resolved" /\ stops[s].timer = "none"


\* positions of the flag f in the list a
Positions(a, f) == {i \in 1..Len(a) : a[i] = f}

VideoFormats == {"avfoundation", "gdigrab", "dshow", "x11grab", "kmsgrab"}

AudioFormats == {"avfoundation", "dshow", "wasapi", "pulse", "alsa", "jack"}

VideoQualityFlags == {"-preset", "-crf", "-b:v", "-qp"}

ScreenIdOrDefault == IF options.screenId = undefined THEN 0 ELSE options.screenId[1]

FpsOrDefault == IF options.fps = undefined THEN 30 ELSE options.fps[1]

\* C26: the built list has, for input 'screen', one video input group and one
\* -c:v group and no -c:a or -b:a; for input 'audio', one audio input group
\* and one -c:a group and no -c:v, -crf or -preset; for input 'both', on macOS
\* one combined avfoundation input '-i <screenId>:<audioDevice or 0>' followed
\* by '-r <fps>', elsewhere the video input group followed by the audio input
\* group, and -c:v with its quality flags before -c:a with its quality flags.
C26_InputModeStructure ==
    Returned =>
        /\ options.input = "screen" =>
             /\ Count(Args, "-f") = 1 /\ Count(Args, "-i") = 1
             /\ \A i \in Positions(Args, "-f") : Args[i + 1] \in VideoFormats
             /\ Count(Args, "-c:v") = 1
             /\ Count(Args, "-c:a") = 0 /\ Count(Args, "-b:a") = 0
        /\ options.input = "audio" =>
             /\ Count(Args, "-f") = 1 /\ Count(Args, "-i") = 1
             /\ \A i \in Positions(Args, "-f") : Args[i + 1] \in AudioFormats
             /\ Count(Args, "-c:a") = 1
             /\ Count(Args, "-c:v") = 0 /\ Count(Args, "-crf") = 0
             /\ Count(Args, "-preset") = 0
        /\ options.input = "both" =>
             /\ IF env.platform = "darwin"
                THEN /\ Count(Args, "-f") = 1 /\ Count(Args, "-i") = 1
                     /\ HasPair(Args, "-f", "avfoundation")
                     /\ \A i \in Positions(Args, "-i") :
                          /\ Args[i + 1] = ToString(ScreenIdOrDefault) \o ":"
                                \o (IF Truthy(options.audioDevice)
                                    THEN options.audioDevice[1] ELSE "0")
                          /\ Args[i + 2] = "-r"
                          /\ Args[i + 3] = ToString(FpsOrDefault)
                ELSE /\ Count(Args, "-f") = 2 /\ Count(Args, "-i") = 2
                     /\ \A i, j \in Positions(Args, "-f") :
                          i < j => Args[i + 1] \in VideoFormats \ {"avfoundation"}
                                   /\ Args[j + 1] \in AudioFormats \ {"avfoundation"}
             /\ Count(Args, "-c:v") = 1 /\ Count(Args, "-c:a") = 1
             /\ \A v \in Positions(Args, "-c:v"), a \in Positions(Args, "-c:a") :
                  /\ v < a
                  /\ \A k \in 1..Len(Args) :
                       /\ Args[k] \in VideoQualityFlags => v < k /\ k < a
                       /\ Args[k] = "-b:a" => a < k

C26_Witness ==
    /\ Returned /\ options.input = "both" /\ env.platform = "darwin"
    /\ options.audioDevice = <<"hw:0">> /\ options.screenId = <<1>>
    /\ HasPair(Args, "-i", "1:hw:0")


\* neither a quality option nor a video codec is supplied
DefaultQuality ==
    /\ options.quality = undefined /\ options.videoQuality = undefined
    /\ options.encodingSpeed = undefined /\ options.crf = undefined
    /\ options.videoBitrate = undefined /\ options.videoCodec = undefined

\* the display server is x11, by explicit choice or because no Wayland session
\* is detected
ResolvedX11 ==
    \/ options.displayServer = <<"x11">>
    \/ /\ options.displayServer = undefined
       /\ ~Truthy(env.WAYLAND_DISPLAY) /\ env.XDG_SESSION_TYPE # <<"wayland">>

\* the -i value of x11grab: DISPLAY (':0.0' when unset), with '.s' for a screen s > 0
X11Input ==
    (IF Truthy(env.DISPLAY) THEN env.DISPLAY[1] ELSE ":0.0")
    \o (IF ScreenIdOrDefault > 0 THEN "." \o ToString(ScreenIdOrDefault) ELSE "")

\* C27: on Linux resolved to x11, input 'screen' with no quality or codec
\* option, frame rate f and screen s builds exactly
\* -y -f x11grab -r f -i D -show_region 1 -c:v <codec> -preset medium -crf 23 <output>
\* with D the DISPLAY (':0.0' when unset), suffixed by '.s' when s > 0.
C27_X11DefaultSequence ==
    (/\ built # << >>
     /\ options.input = "screen" /\ env.platform = "linux"
     /\ DefaultQuality /\ ResolvedX11) =>
        /\ Returned
        /\ \E codec \in {Args[k] : k \in 1..Len(Args)} :
             Args = <<"-y", "-f", "x11grab", "-r", ToString(FpsOrDefault), "-i", X11Input,
                      "-show_region", "1", "-c:v", codec, "-preset", "medium",
                      "-crf", "23", options.output[1]>>

C27_Witness ==
    /\ Returned
    /\ Args = <<"-y", "-f", "x11grab", "-r", "30", "-i", ":1", "-show_region", "1",
                "-c:v", "h264_vaapi", "-preset", "medium", "-crf", "23", "x.mp4">>


\* C28: in every reachable state of a recorder handle, recorder.isRecording
\* implies that recorder.process is non-null.
C28_RecordingHasProcess == isRecording => recProcess # 0


\* C29: SIGKILL is sent to a process only by the expiring watchdog of a stop()
\* that had sent SIGINT to that same process; the watchdog of one stop never
\* kills a process spawned by a later start.
C29_KillOnlyStoppedProcess ==
    [][\A p \in DOMAIN procs :
          (~procs[p].sigkill /\ procs'[p].sigkill) =>
             /\ procs[p].sigint
             /\ \E s \in DOMAIN stops :
                  /\ stops[s].proc = p
                  /\ stops[s].timer = "armed"
                  /\ stops'[s].timer = "fired"]_vars


\* the hardware codec hinted for a platform
HardwareCodec ==
    CASE env.platform = "win32" -> "h264_nvenc"
      [] env.platform = "darwin" -> "h264_videotoolbox"
      [] env.platform = "linux" -> "h264_vaapi"
      [] OTHER -> "none"

\* C30: in every built list with a video codec group and no explicit
\* videoCodec, the value after -c:v is the platform's hardware codec
\* (h264_nvenc on win32, h264_videotoolbox on darwin, h264_vaapi on linux);
\* the software fallback libx264 is never emitted.
C30_AutoCodecIsHardware ==
    (Returned /\ VideoGroup /\ ~Truthy(options.videoCodec)) =>
        /\ env.platform \in {"win32", "darwin", "linux"}
        /\ Count(Args, "-c:v") = 1
        /\ HasPair(Args, "-c:v", HardwareCodec)
        /\ Count(Args, "libx264") = 0

C30_Witness ==
    /\ Returned /\ VideoGroup /\ ~Truthy(options.videoCodec)
    /\ env.platform = "win32"
    /\ HasPair(Args, "-c:v", "h264_nvenc")

============================================================================
